---- MODULE Spec2Model ----
(***************************************************************************)
(* Loan tracker: the action endpoint (loan-manager edge function) over the *)
(* loan/payment store, the parse endpoint that wraps the language model,   *)
(* and the chat flow (onSend / parseCommand / execute) that joins them.    *)
(*                                                                         *)
(* Strings are sequences of one-character strings, so that trim(),         *)
(* toLowerCase(), startsWith(), includes(), ILIKE and the YYYY-MM-DD       *)
(* pattern are computed and not assumed.  JSON values are records          *)
(* [t, n, s]: t the JavaScript type, n the number (or 0/1 of a boolean,    *)
(* or the row number of a uuid), s the characters of a string.  Money is   *)
(* counted in whole units.                                                 *)
(***************************************************************************)
EXTENDS Integers, Sequences, FiniteSets, TLC

VARIABLES
    loans,      \* rows of loan_tracker_loans
    payments,   \* rows of loan_tracker_payments
    nextId,     \* next loan id (gen_random_uuid, in creation order)
    nextPid,    \* next payment id
    now,        \* the server clock: hours since 1970-01-01T00:00Z
    lastReq,    \* body of the last request served by the action endpoint
    lastResp,   \* its response
    inflight,   \* the add_payment calls served concurrently: per call, its position in serve, its amount, the balance it read and the store calls it made
    paidOk,     \* history: per loan id, the sum of the amounts of the add_payment calls answered with success
    preq,       \* parse endpoint: the request and the upstream answer it was served with
    presp,      \* parse endpoint: its response
    chat        \* the chat component: isLoading, position in onSend, parse result, requests sent, runs of execute, request and response of execute, replies shown

vars == <<loans, payments, nextId, nextPid, now, lastReq, lastResp, inflight, paidOk, preq, presp, chat>>

storeVars == <<loans, payments, nextId, nextPid, lastReq, lastResp, inflight, paidOk>>

-----------------------------------------------------------------------------
(* Bounds of the model *)

MaxLoans == 2

MaxPayments == 2

MaxAmount == 2

MaxTick == 2

MaxCalls == 2

-----------------------------------------------------------------------------
(* Strings *)

LowerChar(c) ==
    CASE c = "A" -> "a" [] c = "B" -> "b" [] c = "C" -> "c" [] c = "D" -> "d"
      [] c = "E" -> "e" [] c = "F" -> "f" [] c = "G" -> "g" [] c = "H" -> "h"
      [] c = "I" -> "i" [] c = "J" -> "j" [] c = "K" -> "k" [] c = "L" -> "l"
      [] c = "M" -> "m" [] c = "N" -> "n" [] c = "O" -> "o" [] c = "P" -> "p"
      [] c = "Q" -> "q" [] c = "R" -> "r" [] c = "S" -> "s" [] c = "T" -> "t"
      [] c = "U" -> "u" [] c = "V" -> "v" [] c = "W" -> "w" [] c = "X" -> "x"
      [] c = "Y" -> "y" [] c = "Z" -> "z"
      [] OTHER -> c

\* String.prototype.toLowerCase
ToLowerCase(s) == [i \in 1..Len(s) |-> LowerChar(s[i])]

RECURSIVE TrimStart(_)
TrimStart(s) == IF s # <<>> /\ Head(s) = " " THEN TrimStart(Tail(s)) ELSE s

RECURSIVE TrimEnd(_)
TrimEnd(s) ==
    IF s # <<>> /\ s[Len(s)] = " " THEN TrimEnd(SubSeq(s, 1, Len(s) - 1)) ELSE s

\* String.prototype.trim
Trim(s) == TrimEnd(TrimStart(s))

\* String.prototype.startsWith
StartsWith(s, p) == Len(p) <= Len(s) /\ SubSeq(s, 1, Len(p)) = p

\* String.prototype.includes
Includes(s, p) ==
    \E i \in 0..(Len(s) - Len(p)) : SubSeq(s, i + 1, i + Len(p)) = p

\* PostgreSQL LIKE on lower-cased operands: % is any run of characters, _ any one
RECURSIVE LikeMatch(_, _)
LikeMatch(pat, s) ==
    IF pat = <<>> THEN s = <<>>
    ELSE IF Head(pat) = "%"
         THEN \E k \in 0..Len(s) : LikeMatch(Tail(pat), SubSeq(s, k + 1, Len(s)))
    ELSE /\ s # <<>>
         /\ (Head(pat) = "_" \/ Head(pat) = Head(s))
         /\ LikeMatch(Tail(pat), Tail(s))

\* PostgREST .ilike(column, pattern): case-insensitive LIKE
ILike(pat, s) == LikeMatch(ToLowerCase(pat), ToLowerCase(s))

Digits == {"0", "1", "2", "3", "4", "5", "6", "7", "8", "9"}

DigitVal(c) ==
    CASE c = "0" -> 0 [] c = "1" -> 1 [] c = "2" -> 2 [] c = "3" -> 3 [] c = "4" -> 4
      [] c = "5" -> 5 [] c = "6" -> 6 [] c = "7" -> 7 [] c = "8" -> 8 [] c = "9" -> 9

DigitChar(d) ==
    CASE d = 0 -> "0" [] d = 1 -> "1" [] d = 2 -> "2" [] d = 3 -> "3" [] d = 4 -> "4"
      [] d = 5 -> "5" [] d = 6 -> "6" [] d = 7 -> "7" [] d = 8 -> "8" [] d = 9 -> "9"

-----------------------------------------------------------------------------
(* JSON / JavaScript values *)

Undef == [t |-> "undefined", n |-> 0, s |-> <<>>]

Null == [t |-> "null", n |-> 0, s |-> <<>>]

Num(k) == [t |-> "number", n |-> k, s |-> <<>>]

Str(cs) == [t |-> "string", n |-> 0, s |-> cs]

Bool(b) == [t |-> "boolean", n |-> IF b THEN 1 ELSE 0, s |-> <<>>]

\* a uuid string naming row k
Uuid(k) == [t |-> "string", n |-> k, s |-> <<"#">>]

\* JavaScript truthiness: !v is ~Truthy(v)
Truthy(v) ==
    CASE v.t = "undefined" -> FALSE
      [] v.t = "null" -> FALSE
      [] v.t = "number" -> v.n # 0
      [] v.t = "string" -> v.s # <<>>
      [] v.t = "boolean" -> v.n = 1
      [] OTHER -> TRUE

\* v ?? d
Coalesce(v, d) == IF v.t \in {"undefined", "null"} THEN d ELSE v

\* a destructuring default: { x = d } = body
Default(v, d) == IF v.t = "undefined" THEN d ELSE v

\* the fields a parameters object can carry
NoFields ==
    [loan_name |-> Undef, amount |-> Undef, loan_date |-> Undef, term_months |-> Undef,
     loan_type |-> Undef, loan_id |-> Undef, person |-> Undef, payment_date |-> Undef]

\* a parameters value: an object with its fields, or a value of another type
Params(f) == [t |-> "object", f |-> f]

NotObject(v) == [t |-> v.t, f |-> NoFields]

-----------------------------------------------------------------------------
(* Calendar dates *)

\* the proleptic Gregorian date of a day number (days since 1970-01-01), as Date does
CivilFromDays(days) ==
    LET z == days + 719468
        era == z \div 146097
        doe == z - era * 146097
        yoe == (doe - doe \div 1460 + doe \div 36524 - doe \div 146096) \div 365
        doy == doe - (365 * yoe + yoe \div 4 - yoe \div 100)
        mp == (5 * doy + 2) \div 153
        d == doy - (153 * mp + 2) \div 5 + 1
        m == IF mp < 10 THEN mp + 3 ELSE mp - 9
        y == yoe + era * 400 + (IF m <= 2 THEN 1 ELSE 0)
    IN  [y |-> y, m |-> m, d |-> d]

Pad2(k) == <<DigitChar((k \div 10) % 10), DigitChar(k % 10)>>

Pad4(k) == <<DigitChar((k \div 1000) % 10), DigitChar((k \div 100) % 10)>> \o Pad2(k % 100)

\* `${y}-${m}-${day}` with 4-digit year and 2-digit month and day
FormatDate(c) == Pad4(c.y) \o <<"-">> \o Pad2(c.m) \o <<"-">> \o Pad2(c.d)

\* new Date().toISOString().slice(0, 10): the UTC calendar date of the instant
UtcDateISO(hours) == FormatDate(CivilFromDays(hours \div 24))

\* hours America/Chicago is behind UTC at the instant (2025: daylight time from
\* 2025-03-09T08:00Z to 2025-11-02T07:00Z)
ChicagoOffset(hours) ==
    IF hours >= 20156 * 24 + 8 /\ hours < 20394 * 24 + 7 THEN 5 ELSE 6

\* todayInTZ("America/Chicago"): the calendar date of the instant in that zone
todayInTZ(hours) == FormatDate(CivilFromDays((hours - ChicagoOffset(hours)) \div 24))

\* /^\d{4}-\d{2}-\d{2}$/ on a string value
isISODate(v) ==
    /\ v.t = "string"
    /\ Len(v.s) = 10
    /\ \A i \in {1, 2, 3, 4, 6, 7, 9, 10} : v.s[i] \in Digits
    /\ v.s[5] = "-"
    /\ v.s[8] = "-"

\* what a column of type date accepts of a YYYY-MM-DD text
DateColumnAccepts(s) ==
    LET y == 1000 * DigitVal(s[1]) + 100 * DigitVal(s[2]) + 10 * DigitVal(s[3]) + DigitVal(s[4])
        m == 10 * DigitVal(s[6]) + DigitVal(s[7])
        d == 10 * DigitVal(s[9]) + DigitVal(s[10])
        leap == (y % 4 = 0 /\ y % 100 # 0) \/ y % 400 = 0
        dim == IF m = 2 THEN (IF leap THEN 29 ELSE 28)
               ELSE IF m \in {4, 6, 9, 11} THEN 30 ELSE 31
    IN  y >= 1 /\ m \in 1..12 /\ d \in 1..dim

\* the first instant of the modelled clock: 2025-08-31T23:00Z
ClockStart == 20331 * 24 + 23

-----------------------------------------------------------------------------
(* String literals of the program *)

Steven == <<"S", "t", "e", "v", "e", "n">>

Katerina == <<"K", "a", "t", "e", "r", "i", "n", "a">>

General == <<"g", "e", "n", "e", "r", "a", "l">>

CreateLoan == <<"c", "r", "e", "a", "t", "e", "_", "l", "o", "a", "n">>

AddPaymentAct == <<"a", "d", "d", "_", "p", "a", "y", "m", "e", "n", "t">>

GetLoans == <<"g", "e", "t", "_", "l", "o", "a", "n", "s">>

DeleteLoan == <<"d", "e", "l", "e", "t", "e", "_", "l", "o", "a", "n">>

Unknown == <<"u", "n", "k", "n", "o", "w", "n">>

-----------------------------------------------------------------------------
(* The action endpoint: supabase/functions/loan-manager *)

\* a request body with no fields
NoBody ==
    [action |-> Undef, name |-> Undef, original_amount |-> Undef, loan_date |-> Undef,
     term_months |-> Undef, loan_type |-> Undef, loan_id |-> Undef, loan_name |-> Undef,
     amount |-> Undef, paid_by |-> Undef, payment_date |-> Undef]

NoData == [kind |-> "none"]

\* ok(data, status)
ok(data, status) == [status |-> status, success |-> TRUE, error |-> "", data |-> data]

\* bad(error, status)
bad(error, status) == [status |-> status, success |-> FALSE, error |-> error, data |-> NoData]

\* the state of the store and the response a request ends with
Outcome(ls, ps, nid, npid, resp) ==
    [loans |-> ls, payments |-> ps, nextId |-> nid, nextPid |-> npid, resp |-> resp]

\* the request ends with the store as it found it
Unchanged(resp) == Outcome(loans, payments, nextId, nextPid, resp)

\* the catch of serve: bad(e?.message ?? "Unexpected error", 500)
Caught(ls, ps, npid) == Outcome(ls, ps, nextId, npid, bad("store or runtime error", 500))

\* the value kept as it was sent, trimmed, and "Steven" only for a falsy one
normalizePaidByVerbatim(v) == IF ~Truthy(v) THEN Steven ELSE Trim(v.s)

\* normalizePaidBy: "Steven" unless the trimmed, lower-cased value is "katerina"
normalizePaidBy(v) ==
    IF ~Truthy(v) THEN Steven
    ELSE LET p == ToLowerCase(Trim(v.s))
         IN  IF p \in {<<"i">>, <<"m", "e">>, <<"m", "y", "s", "e", "l", "f">>, ToLowerCase(Steven)}
             THEN Steven
             ELSE IF p = ToLowerCase(Katerina) THEN Katerina
             ELSE Steven

\* v.trim() on a truthy value that is no string throws a TypeError
TrimThrows(v) == Truthy(v) /\ v.t # "string"

\* resolveLoanIdByName without its error branch: the ids it can return for a name
\* (a string).  The rows come back in no stated order, so data.find and data[0]
\* can be any row of their candidates.
resolveLoanIdByName(name) ==
    LET data == {r \in loans : ILike(Trim(name), r.name)}
        exact == {r \in data : ToLowerCase(r.name) = ToLowerCase(name)}
    IN  IF data = {} THEN {Null}
        ELSE IF exact # {} THEN {Uuid(r.id) : r \in exact}
        ELSE {Uuid(r.id) : r \in data}

\* loan_id ?? (loan_name ? await resolveLoanIdByName(supabase, loan_name) : null):
\* the ids the expression can yield (none when name.trim() throws)
TargetIds(loan_id, loan_name) ==
    IF loan_id.t \notin {"undefined", "null"} THEN {loan_id}
    ELSE IF ~Truthy(loan_name) THEN {Null}
    ELSE IF TrimThrows(loan_name) THEN {}
    ELSE resolveLoanIdByName(loan_name.s)

\* whether that expression can throw: name.trim() on a non-string, or the select failing
TargetCanThrow(loan_id, loan_name) ==
    loan_id.t \in {"undefined", "null"} /\ Truthy(loan_name)

LoanRow(id) == CHOOSE r \in loans : r.id = id

IsLoanId(v) == v.t = "string" /\ v.s = <<"#">> /\ \E r \in loans : r.id = v.n

Max(a, b) == IF a >= b THEN a ELSE b

\* the validation of create_loan: TRUE when the request is rejected
createLoanRejects(b) ==
    \/ ~Truthy(b.name)
    \/ b.original_amount.t # "number"
    \/ ~isISODate(b.loan_date)
    \/ b.term_months.t # "number"
    \/ b.term_months.n <= 0

\* what a column of type text stores of a JSON string or number
ColumnText(v) == IF v.t = "number" THEN <<DigitChar(v.n % 10)>> ELSE v.s

\* action === "create_loan"
ServeCreateLoan(b) ==
    LET loan_type == Default(b.loan_type, Str(General))
        row == [id |-> nextId, name |-> ColumnText(b.name), original_amount |-> b.original_amount.n,
                current_balance |-> b.original_amount.n, loan_type |-> loan_type.s,
                term_months |-> b.term_months.n, loan_date |-> b.loan_date.s]
    IN  IF createLoanRejects(b)
        THEN {Unchanged(bad("create_loan requires name, numeric original_amount, loan_date (YYYY-MM-DD), and positive term_months.", 400))}
        ELSE \* the insert fails (throw error), or the row is stored
             {Caught(loans, payments, nextPid)}
             \cup (IF DateColumnAccepts(b.loan_date.s)
                   THEN {Outcome(loans \cup {row}, payments, nextId + 1, nextPid,
                                 ok([kind |-> "loan", row |-> row], 201))}
                   ELSE {})

\* the row add_payment inserts into loan_tracker_payments
PaymentRow(id, amount, paidBy, iso) ==
    [id |-> nextPid, loan_id |-> id.n, amount |-> amount, paid_by |-> paidBy, payment_date |-> iso]

SetBalance(ls, id, bal) ==
    {IF r.id = id THEN [r EXCEPT !.current_balance = bal] ELSE r : r \in ls}

\* the decrement as a plain subtraction, without greatest(0, ...)
decrementWithoutFloor(ls, id, amount) ==
    {IF r.id = id THEN [r EXCEPT !.current_balance = r.current_balance - amount] ELSE r : r \in ls}

\* the update computing the balance from original_amount
decrementFromOriginal(ls, id, amount) ==
    {IF r.id = id THEN [r EXCEPT !.current_balance = Max(0, r.original_amount - amount)] ELSE r : r \in ls}

\* rpc decrement_loan_balance: current_balance = greatest(0, current_balance - p_amount)
decrement_loan_balance(ls, id, amount) ==
    {IF r.id = id THEN [r EXCEPT !.current_balance = Max(0, r.current_balance - amount)] ELSE r : r \in ls}

\* the fallback ending without an error and without writing the balance
fallbackKeepsBalance(ls, id, amount) == ls

\* the fallback of add_payment: read current_balance, write Math.max(0, curr - amount)
fallbackDecrement(ls, id, amount) ==
    SetBalance(ls, id, Max(0, LoanRow(id).current_balance - amount))

\* the server's date whatever payment_date is
paymentDateAlwaysToday(payment_date) == UtcDateISO(now)

\* isISODate(payment_date) ? payment_date : new Date().toISOString().slice(0, 10)
paymentDateOrToday(payment_date) ==
    IF isISODate(payment_date) THEN payment_date.s ELSE UtcDateISO(now)

\* the destructuring default with the other party
paidByDefaultsToKaterina(b) == Default(b.paid_by, Str(Katerina))

\* the destructuring default of add_payment: paid_by = "Steven"
paidByOrDefault(b) == Default(b.paid_by, Str(Steven))

\* the steps of add_payment after its target id is known
AddPaymentTo(b, id) ==
    LET amount == b.amount.n
        paid_by == paidByOrDefault(b)
        iso == paymentDateOrToday(b.payment_date)
        paidBy == normalizePaidBy(paid_by)
        row == PaymentRow(id, amount, paidBy, iso)
        ps == payments \cup {row}
        data == [kind |-> "payment", loan_id |-> id, amount |-> amount,
                 paid_by |-> paidBy, payment_date |-> iso]
    IN  IF ~Truthy(id)
        THEN {Unchanged(bad("add_payment requires loan_id or valid loan_name.", 400))}
        ELSE IF TrimThrows(paid_by)
        THEN {Caught(loans, payments, nextPid)}
        ELSE \* 1) the insert fails: always when loan_id names no loan (foreign key)
             \*    or the date column refuses the text
             {Caught(loans, payments, nextPid)}
             \cup (IF IsLoanId(id) /\ DateColumnAccepts(iso)
                   THEN \* 2) the rpc succeeds
                        {Outcome(decrement_loan_balance(loans, id.n, amount), ps, nextId,
                                 nextPid + 1, ok(data, 200))}
                        \* the rpc fails and the fallback's select or update fails
                        \cup {Caught(loans, ps, nextPid + 1)}
                        \* the rpc fails and the fallback writes the balance
                        \cup {Outcome(fallbackDecrement(loans, id.n, amount), ps, nextId,
                                      nextPid + 1, ok(data, 200))}
                   ELSE {})

\* action === "add_payment"
ServeAddPayment(b) ==
    IF b.amount.t # "number" \/ b.amount.n <= 0
    THEN {Unchanged(bad("add_payment requires a positive numeric 'amount'.", 400))}
    ELSE (IF TargetCanThrow(b.loan_id, b.loan_name)
          THEN {Caught(loans, payments, nextPid)} ELSE {})
         \cup UNION {AddPaymentTo(b, id) : id \in TargetIds(b.loan_id, b.loan_name)}

RECURSIVE SumAmounts(_)
SumAmounts(ps) ==
    IF ps = {} THEN 0
    ELSE LET p == CHOOSE x \in ps : TRUE IN p.amount + SumAmounts(ps \ {p})

\* one row of the get_loans result: the loan, its payments and their total
LoanWithPayments(l) ==
    LET ps == {p \in payments : p.loan_id = l.id}
    IN  [id |-> l.id, name |-> l.name, original_amount |-> l.original_amount,
         current_balance |-> l.current_balance, loan_type |-> l.loan_type,
         term_months |-> l.term_months, loan_date |-> l.loan_date,
         payments |-> ps, total_paid |-> SumAmounts(ps)]

\* .order("created_at", { ascending: false }): the newest loan first
RECURSIVE NewestFirst(_)
NewestFirst(ls) ==
    IF ls = {} THEN <<>>
    ELSE LET l == CHOOSE x \in ls : \A y \in ls : y.id <= x.id
         IN  <<LoanWithPayments(l)>> \o NewestFirst(ls \ {l})

\* action === "get_loans"
ServeGetLoans ==
    {Caught(loans, payments, nextPid),
     Unchanged(ok([kind |-> "loans", list |-> NewestFirst(loans)], 200))}

\* delete_loan removing the loan row and leaving its payments
DeleteLoanKeepsPayments(id) ==
    IF ~Truthy(id)
    THEN {Unchanged(bad("delete_loan requires loan_id or valid loan_name.", 400))}
    ELSE {Caught(loans, payments, nextPid)}
         \cup (IF id.s = <<"#">>
               THEN {Outcome({r \in loans : r.id # id.n}, payments, nextId, nextPid,
                             ok([kind |-> "deleted", loan_id |-> id], 200))}
               ELSE {})

\* the steps of delete_loan after its target id is known
DeleteLoanById(id) ==
    LET ps == {p \in payments : p.loan_id # id.n}
        ls == {r \in loans : r.id # id.n}
    IN  IF ~Truthy(id)
        THEN {Unchanged(bad("delete_loan requires loan_id or valid loan_name.", 400))}
        ELSE {Caught(loans, payments, nextPid)}    \* the payments delete fails
             \cup (IF id.s = <<"#">>              \* (always, when id is no uuid)
                   THEN {Caught(loans, ps, nextPid),       \* the loan delete fails
                         Outcome(ls, ps, nextId, nextPid,
                                 ok([kind |-> "deleted", loan_id |-> id], 200))}
                   ELSE {})

\* action === "delete_loan"
ServeDeleteLoan(b) ==
    (IF TargetCanThrow(b.loan_id, b.loan_name)
     THEN {Caught(loans, payments, nextPid)} ELSE {})
    \cup UNION {DeleteLoanById(id) : id \in TargetIds(b.loan_id, b.loan_name)}

\* serve, for a POST request with the JSON body b: every way it can end
serve(b) ==
    IF ~Truthy(b.action) THEN {Unchanged(bad("Missing 'action'.", 400))}
    ELSE IF b.action = Str(CreateLoan) THEN ServeCreateLoan(b)
    ELSE IF b.action = Str(AddPaymentAct) THEN ServeAddPayment(b)
    ELSE IF b.action = Str(GetLoans) THEN ServeGetLoans
    ELSE IF b.action = Str(DeleteLoan) THEN ServeDeleteLoan(b)
    ELSE {Unchanged(bad("Unknown action", 400))}

-----------------------------------------------------------------------------
(* The store served by the action endpoint *)

NoResponse == [status |-> 0, success |-> FALSE, error |-> "", data |-> NoData]

NoParse == [status |-> 0]

\* no parse result yet
NoParsed ==
    [action |-> Undef, parameters |-> Params(NoFields), message |-> Undef,
     need_followup |-> Undef, followup_question |-> Undef]

\* no reply yet; a reply has a kind, the loans it shows, the number of loans it
\* states and the fields it names as missing
NoReply == [kind |-> "none", shown |-> <<>>, count |-> 0, named |-> {}]

\* the chat component before any message: not loading, nothing parsed, no request made
ChatIdle ==
    [isLoading |-> FALSE, pc |-> "idle", parsed |-> NoParsed, payload |-> NoBody,
     parses |-> 0, runs |-> 0, calls |-> 0, res |-> NoResponse, reply |-> NoReply]

\* an add_payment call that has not arrived yet
IdleCall == [pc |-> "idle", amount |-> 0, curr |-> 0, log |-> <<>>]

InitStore ==
    /\ loans = {}
    /\ payments = {}
    /\ nextId = 1
    /\ nextPid = 1
    /\ now = ClockStart
    /\ lastReq = NoBody
    /\ lastResp = NoResponse
    /\ inflight = [c \in 1..MaxCalls |-> IdleCall]
    /\ paidOk = [i \in 1..MaxLoans |-> 0]

Init ==
    /\ InitStore
    /\ preq = NoParse
    /\ presp = NoParse
    /\ chat = ChatIdle

\* the store and the response after one of the ways o the request b can end
Served(b, o) ==
    /\ loans' = o.loans
    /\ payments' = o.payments
    /\ nextId' = o.nextId
    /\ nextPid' = o.nextPid
    /\ lastReq' = b
    /\ lastResp' = o.resp
    /\ inflight' = inflight
    /\ paidOk' = IF o.resp.success /\ o.resp.data.kind = "payment"
                 THEN [paidOk EXCEPT ![o.resp.data.loan_id.n] = @ + o.resp.data.amount]
                 ELSE paidOk

\* the model creates at most MaxLoans loans and records at most MaxPayments payments
WithinBounds(b) ==
    /\ b.action = Str(CreateLoan) => nextId <= MaxLoans
    /\ b.action = Str(AddPaymentAct) => nextPid <= MaxPayments

\* a POST to the action endpoint with body b, served from start to end
Request(b) ==
    /\ WithinBounds(b)
    /\ \E o \in serve(b) : Served(b, o)
    /\ UNCHANGED <<now, preq, presp, chat>>

\* an hour passes
Tick ==
    /\ now < ClockStart + MaxTick
    /\ now' = now + 1
    /\ UNCHANGED <<storeVars, preq, presp, chat>>

-----------------------------------------------------------------------------
(* Request bodies *)

Ab == <<"a", "b">>

Abc == <<"A", "b", "c">>

Cab == <<"c", "a", "b">>

Date1 == <<"2", "0", "2", "5", "-", "0", "8", "-", "2", "3">>

BadDate == <<"2", "0", "2", "5", "-", "1", "3", "-", "4", "5">>

Junk == <<"y", "e", "s", "t", "e", "r", "d", "a", "y">>

CreateBody(name, amount, date, term) ==
    [NoBody EXCEPT !.action = Str(CreateLoan), !.name = name, !.original_amount = amount,
                   !.loan_date = date, !.term_months = term]

PayById(k, amount) ==
    [NoBody EXCEPT !.action = Str(AddPaymentAct), !.loan_id = Uuid(k), !.amount = amount]

PayByName(name, amount) ==
    [NoBody EXCEPT !.action = Str(AddPaymentAct), !.loan_name = name, !.amount = amount]

DeleteById(k) == [NoBody EXCEPT !.action = Str(DeleteLoan), !.loan_id = Uuid(k)]

DeleteByName(name) == [NoBody EXCEPT !.action = Str(DeleteLoan), !.loan_name = name]

GetBody == [NoBody EXCEPT !.action = Str(GetLoans)]

\* create_loan requests: well-formed ones, and ones with one field missing, falsy or ill-typed
CreateBodies ==
    {CreateBody(Str(Ab), Num(a), Str(Date1), Num(12)) : a \in (-1)..MaxAmount}
    \cup {CreateBody(n, Num(1), Str(Date1), Num(12)) : n \in {Undef, Null, Str(<<>>)}}
    \cup {CreateBody(Str(Ab), a, Str(Date1), Num(12)) : a \in {Undef, Null, Str(<<"1">>)}}
    \cup {CreateBody(Str(Ab), Num(1), d, Num(12)) : d \in {Undef, Null, Str(<<>>), Str(Junk), Str(BadDate)}}
    \cup {CreateBody(Str(Ab), Num(1), Str(Date1), m) : m \in {Undef, Null, Num(0), Num(-1), Str(<<"1">>)}}

\* add_payment requests naming the loan by id
PayBodies ==
    {PayById(k, Num(a)) : k \in 1..MaxLoans, a \in {0, 1, MaxAmount}}
    \cup {PayById(1, a) : a \in {Undef, Str(<<"1">>)}}
    \cup {[NoBody EXCEPT !.action = Str(AddPaymentAct), !.amount = Num(1)]}

\* the requests of the specification Spec: loans are created, paid, listed and deleted
Bodies ==
    {CreateBody(Str(Ab), Num(MaxAmount), Str(Date1), Num(12))}
    \cup PayBodies \cup {DeleteById(k) : k \in 1..MaxLoans}
    \cup {GetBody, NoBody, [NoBody EXCEPT !.action = Str(Junk)]}

Next == \E b \in Bodies : Request(b)

\* the action endpoint serving create, pay, list and delete requests one after the other
Spec == Init /\ [][Next]_vars

NextCreate == \E b \in CreateBodies \cup {GetBody} : Request(b)

\* the action endpoint serving create_loan requests
SpecCreate == Init /\ [][NextCreate]_vars

\* loan names as callers spell them: other casing, blanks around, a prefix, a
\* substring, a LIKE wildcard, a name of no loan, no name, a name that is no string
NameQueries ==
    {Str(<<"A", "B">>), Str(<<" ", "a", "b", " ">>), Str(<<"a">>), Str(<<"b">>),
     Str(<<"c", "a">>), Str(<<"a", "%">>), Str(<<"d">>), Str(<<>>), Undef, Num(5)}

\* the requests of the specification SpecNames: loans of three names, paid and deleted by name
NameBodies ==
    {CreateBody(Str(n), Num(1), Str(Date1), Num(12)) : n \in {Ab, Abc, Cab}}
    \cup {PayByName(q, Num(1)) : q \in NameQueries}
    \cup {DeleteByName(q) : q \in NameQueries}
    \cup {GetBody}

NextNames == \E b \in NameBodies : Request(b)

\* the action endpoint resolving loans by name
SpecNames == Init /\ [][NextNames]_vars

\* paid_by as callers send it
PaidByInputs ==
    {Undef, Null, Str(<<>>), Str(Steven), Str(Katerina), Str(<<"m", "e">>),
     Str(<<" ", "K", "A", "T", "E", "R", "I", "N", "A", " ">>), Str(<<"B", "o", "b">>)}

\* payment_date as callers send it
PaymentDateInputs == {Undef, Null, Str(Date1), Str(Junk)}

\* the requests of the specification SpecDefaults: payments with and without payer and date
DefaultsBodies ==
    {CreateBody(Str(Ab), Num(MaxAmount), Str(Date1), Num(12))}
    \cup {[PayById(1, Num(1)) EXCEPT !.paid_by = pb, !.payment_date = d] :
            pb \in PaidByInputs, d \in PaymentDateInputs}

NextDefaults == (\E b \in DefaultsBodies : Request(b)) \/ Tick

\* the action endpoint recording payments as the clock advances
SpecDefaults == Init /\ [][NextDefaults]_vars

\* the requests of the specification SpecPaidBy: payments of every payer
\* spelling, with amounts below, at and above zero
PaidByBodies ==
    {CreateBody(Str(Ab), Num(MaxAmount), Str(Date1), Num(12))}
    \cup {[PayById(1, Num(a)) EXCEPT !.paid_by = pb] :
            pb \in PaidByInputs \cup {Num(5)}, a \in {-1, 0, 1}}

NextPaidBy == \E b \in PaidByBodies : Request(b)

\* the action endpoint recording who paid
SpecPaidBy == Init /\ [][NextPaidBy]_vars

\* values of payment_date that are supplied and are no YYYY-MM-DD string
MalformedDates == {Null, Num(5), Str(<<>>), Str(Junk), Str(<<"2", "0", "2", "5", "/", "0", "8", "/", "2", "3">>)}

\* the requests of the specification SpecDates: payments with a payment_date
\* that is absent, malformed, a date, and of the form of a date without being one
DateBodies ==
    {CreateBody(Str(Ab), Num(MaxAmount), Str(Date1), Num(12))}
    \cup {[PayById(1, Num(1)) EXCEPT !.payment_date = d] :
            d \in MalformedDates \cup {Undef, Str(Date1), Str(BadDate)}}

NextDates == (\E b \in DateBodies : Request(b)) \/ Tick

\* the action endpoint dating payments as the clock advances
SpecDates == Init /\ [][NextDates]_vars

\* the requests of the specification SpecDelete: loans of two names are created,
\* paid, listed, and deleted by id or by name
DeleteBodies ==
    {CreateBody(Str(n), Num(MaxAmount), Str(Date1), Num(12)) : n \in {Ab, Abc}}
    \cup {PayById(k, Num(1)) : k \in 1..MaxLoans}
    \cup {DeleteById(k) : k \in 1..MaxLoans}
    \cup {DeleteByName(Str(<<"A", "B">>)), DeleteByName(Str(<<"d">>)), GetBody}

NextDelete == \E b \in DeleteBodies : Request(b)

\* the action endpoint deleting loans
SpecDelete == Init /\ [][NextDelete]_vars

-----------------------------------------------------------------------------
(* add_payment step by step, for calls served concurrently on the loan of id 1 *)

\* a store call made by an add_payment, and whether it returned an error
StoreCall(op, err) == [op |-> op, err |-> err]

\* serve (add_payment) up to its first store call: the amount is validated
PayReceive(c, amount) ==
    /\ inflight[c].pc = "idle"
    /\ amount > 0
    /\ inflight' = [inflight EXCEPT ![c] = [IdleCall EXCEPT !.pc = "insert", !.amount = amount]]
    /\ UNCHANGED <<loans, payments, nextId, nextPid, lastReq, lastResp, paidOk, now, preq, presp, chat>>

\* if (pErr) throw pErr: the call ends, or goes on to the decrement
afterInsert(call, pErr) ==
    [call EXCEPT !.pc = IF pErr THEN "failed" ELSE "rpc",
                 !.log = Append(@, StoreCall("insert", pErr))]

\* 1) the insert of the payment row; it fails when the loan is not there (foreign key)
PayInsert(c) ==
    /\ inflight[c].pc = "insert"
    /\ \E pErr \in BOOLEAN :
          /\ pErr \/ IsLoanId(Uuid(1))
          /\ inflight' = [inflight EXCEPT ![c] = afterInsert(@, pErr)]
          /\ IF pErr
             THEN UNCHANGED <<payments, nextPid>>
             ELSE /\ payments' = payments \cup
                        {PaymentRow(Uuid(1), inflight[c].amount, Steven, UtcDateISO(now))}
                  /\ nextPid' = nextPid + 1
    /\ UNCHANGED <<loans, nextId, lastReq, lastResp, paidOk, now, preq, presp, chat>>

\* 2) the rpc decrement_loan_balance: one atomic update, or an error
PayRpc(c) ==
    /\ inflight[c].pc = "rpc"
    /\ \E rpcErr \in BOOLEAN :
          /\ inflight' = [inflight EXCEPT ![c].pc = IF rpcErr THEN "select" ELSE "ok",
                                          ![c].log = Append(@, StoreCall("rpc", rpcErr))]
          /\ loans' = IF rpcErr THEN loans
                      ELSE decrement_loan_balance(loans, 1, inflight[c].amount)
          /\ paidOk' = IF rpcErr THEN paidOk ELSE [paidOk EXCEPT ![1] = @ + inflight[c].amount]
    /\ UNCHANGED <<payments, nextId, nextPid, lastReq, lastResp, now, preq, presp, chat>>

\* the call going on with the value curr had before the select
currBeforeInsert(call, ls) ==
    [call EXCEPT !.pc = "update", !.log = Append(@, StoreCall("select", FALSE))]

\* Number(loanRow?.current_balance ?? 0) of the row the select returns
currFromSelect(call, ls) ==
    [call EXCEPT !.pc = "update", !.log = Append(@, StoreCall("select", FALSE)),
                 !.curr = (CHOOSE r \in ls : r.id = 1).current_balance]

\* the fallback's select of current_balance; .single() fails when the loan is not there
PaySelect(c) ==
    /\ inflight[c].pc = "select"
    /\ \E selErr \in BOOLEAN :
          /\ selErr \/ IsLoanId(Uuid(1))
          /\ inflight' =
                [inflight EXCEPT ![c] =
                    IF selErr
                    THEN [@ EXCEPT !.pc = "failed", !.log = Append(@, StoreCall("select", TRUE))]
                    ELSE currFromSelect(@, loans)]
    /\ UNCHANGED <<loans, payments, nextId, nextPid, lastReq, lastResp, paidOk, now, preq, presp, chat>>

\* the new balance written as the balance read
newBalKeepsCurr(curr, amount) == curr

\* newBal = Math.max(0, curr - amount)
newBal(curr, amount) == Max(0, curr - amount)

\* the fallback's update of current_balance
PayUpdate(c) ==
    /\ inflight[c].pc = "update"
    /\ \E updErr \in BOOLEAN :
          /\ inflight' = [inflight EXCEPT ![c].pc = IF updErr THEN "failed" ELSE "ok",
                                          ![c].log = Append(@, StoreCall("update", updErr))]
          /\ loans' = IF updErr THEN loans
                      ELSE SetBalance(loans, 1, newBal(inflight[c].curr, inflight[c].amount))
          /\ paidOk' = IF updErr THEN paidOk ELSE [paidOk EXCEPT ![1] = @ + inflight[c].amount]
    /\ UNCHANGED <<payments, nextId, nextPid, lastReq, lastResp, now, preq, presp, chat>>

NextPay ==
    \/ Request(CreateBody(Str(Ab), Num(MaxAmount), Str(Date1), Num(12)))
    \/ \E c \in 1..MaxCalls, a \in {1, MaxAmount} : PayReceive(c, a)
    \/ \E c \in 1..MaxCalls : PayInsert(c) \/ PayRpc(c) \/ PaySelect(c) \/ PayUpdate(c)

\* the action endpoint serving add_payment calls on one loan concurrently
SpecPay == Init /\ [][NextPay]_vars

\* the requests of the specification SpecValidate: requests of every action,
\* well-formed and with a field missing, falsy, ill-typed or naming no loan
ValidateBodies ==
    CreateBodies
    \cup {CreateBody(Num(5), Num(1), Str(Date1), Num(12)),
          CreateBody(Str(Ab), Num(1), Num(5), Num(12))}
    \cup PayBodies
    \cup {PayByName(q, Num(1)) : q \in {Str(Ab), Str(<<"d">>), Str(<<>>), Null}}
    \cup {DeleteByName(q) : q \in {Str(Ab), Str(<<"d">>), Str(<<>>), Null}}
    \cup {DeleteById(1), [NoBody EXCEPT !.action = Str(DeleteLoan)]}
    \cup {GetBody, NoBody, [NoBody EXCEPT !.action = Str(Junk)]}

NextValidate == \E b \in ValidateBodies : Request(b)

\* the action endpoint validating its requests
SpecValidate == Init /\ [][NextValidate]_vars

-----------------------------------------------------------------------------
(* Claims about the action endpoint *)

RequiredOfCreate(b) == {b.name, b.original_amount, b.loan_date, b.term_months}

\* C2: a create_loan request in which name, original_amount, loan_date or
\* term_months is absent or falsy (empty string, 0, null) is answered with an
\* error and inserts no loan row.
C2_CreateLoanNeedsAllFour ==
    (lastReq.action = Str(CreateLoan) /\ \E v \in RequiredOfCreate(lastReq) : ~Truthy(v))
        => (~lastResp.success /\ lastResp.data.kind # "loan")

PaymentsOf(id) == {p \in payments : p.loan_id = id}

\* C3: once the amounts of the successful add_payment calls on a loan sum to at
\* least its original_amount, its current_balance is exactly 0 (never negative),
\* and it stays 0 under further payments.
C3_BalanceFlooredAtZero ==
    \A r \in loans :
        (paidOk[r.id] > 0 /\ paidOk[r.id] >= r.original_amount) => r.current_balance = 0

\* a loan paid beyond its original amount by two or more payments, at balance 0
C3_Witness ==
    \E r \in loans :
        /\ r.original_amount > 0
        /\ paidOk[r.id] > r.original_amount
        /\ Cardinality(PaymentsOf(r.id)) >= 2
        /\ r.current_balance = 0

OnlyPartOf(q, r) ==
    /\ Includes(ToLowerCase(r.name), ToLowerCase(Trim(q)))
    /\ ToLowerCase(r.name) # ToLowerCase(Trim(q))

\* C5: an add_payment or delete_loan request with a loan_name and no loan_id,
\* whose name is only a prefix or a substring of exactly one stored loan name,
\* is resolved to that loan (it is not rejected as unresolved) and, when it
\* succeeds, has acted on that loan.
C5_NameResolvedByPrefixOrSubstring ==
    [][\A r \in loans :
        ( /\ lastReq'.action \in {Str(AddPaymentAct), Str(DeleteLoan)}
          /\ lastReq'.action = Str(AddPaymentAct) => lastReq'.amount.n > 0
          /\ lastReq'.loan_id = Undef
          /\ lastReq'.loan_name.t = "string"
          /\ Trim(lastReq'.loan_name.s) # <<>>
          /\ OnlyPartOf(lastReq'.loan_name.s, r)
          /\ \A x \in loans : Includes(ToLowerCase(x.name), ToLowerCase(Trim(lastReq'.loan_name.s))) => x = r )
        => ( /\ lastResp'.status # 400
             /\ lastResp'.success => lastResp'.data.loan_id = Uuid(r.id) )]_vars

\* the row a step has inserted into loan_tracker_payments
Inserted(ps, pid) == CHOOSE p \in ps : p.id = pid

\* C7: an add_payment without payment_date records today's calendar date in
\* America/Chicago, the date the parse endpoint computes at the same instant.
C7_DefaultDateIsChicagoToday ==
    [][(nextPid' = nextPid + 1 /\ lastReq'.payment_date = Undef)
        => Inserted(payments', nextPid).payment_date = todayInTZ(now)]_vars

\* the ids of the loans in a set of rows or in a get_loans list
IdsOf(ls) == {r.id : r \in ls}

ListedIds(list) == {list[i].id : i \in DOMAIN list}

\* C14: a delete_loan answered with success leaves neither the loan nor any
\* payment of that loan in the store; a loan that is gone never comes back
\* (new loans get new ids, no payment is stored for a loan that is not
\* there), and a get_loans answered with success lists exactly the loans of
\* the store, so no later get_loans contains the deleted loan.
C14_DeleteRemovesLoanAndPayments ==
    [][ /\ (lastReq'.action = Str(DeleteLoan) /\ lastResp'.success)
            => /\ lastResp'.data.loan_id.n \notin IdsOf(loans')
               /\ \A p \in payments' : p.loan_id # lastResp'.data.loan_id.n
        /\ \A r \in loans' : r.id \in IdsOf(loans) \/ r.id >= nextId
        /\ \A p \in payments' : p.loan_id \in IdsOf(loans')
        /\ (lastReq'.action = Str(GetLoans) /\ lastResp'.success)
            => ListedIds(lastResp'.data.list) = IdsOf(loans') ]_vars

\* a loan with two payments has been deleted by name: loan and payments are gone
C14_Witness ==
    /\ lastReq.action = Str(DeleteLoan)
    /\ lastReq.loan_name.t = "string"
    /\ lastResp.success
    /\ paidOk[lastResp.data.loan_id.n] >= 2
    /\ lastResp.data.loan_id.n \notin IdsOf(loans)
    /\ \A p \in payments : p.loan_id # lastResp.data.loan_id.n

Missing(v) == v.t \in {"undefined", "null"}

\* a create_loan body with a required field missing or of the wrong type, or
\* with a term that is not positive
CreateInvalid(b) ==
    \/ Missing(b.name) \/ b.name.t # "string"
    \/ Missing(b.original_amount) \/ b.original_amount.t # "number"
    \/ Missing(b.loan_date) \/ b.loan_date.t # "string"
    \/ Missing(b.term_months) \/ b.term_months.t # "number"
    \/ b.term_months.n <= 0

\* a body that names its loan by no id and by a name that is missing or that
\* no stored loan matches in any tier
NameUnresolved(b) ==
    /\ Missing(b.loan_id)
    /\ \/ ~Truthy(b.loan_name)
       \/ /\ b.loan_name.t = "string"
          /\ \A r \in loans :
                ~Includes(ToLowerCase(r.name), ToLowerCase(Trim(b.loan_name.s)))

\* the requests the action endpoint is to reject for validation
ValidationFails(b) ==
    \/ ~Truthy(b.action)
    \/ b.action \notin {Str(CreateLoan), Str(AddPaymentAct), Str(GetLoans), Str(DeleteLoan)}
    \/ b.action = Str(CreateLoan) /\ CreateInvalid(b)
    \/ b.action = Str(AddPaymentAct) /\ (b.amount.t # "number" \/ b.amount.n <= 0)
    \/ b.action \in {Str(AddPaymentAct), Str(DeleteLoan)} /\ NameUnresolved(b)

\* C17: a request with no action, an unknown action, a create_loan with a
\* missing or ill-typed required field or a non-positive term_months, an
\* add_payment with a non-numeric or non-positive amount, or an add_payment or
\* delete_loan with no loan_id and a missing or unresolved loan_name is
\* answered with success = false and status 400 (status 500 only when the
\* lookup of the name itself fails in the store), and leaves loans and
\* payments unchanged.
C17_ValidationRejectsWith400 ==
    [][ValidationFails(lastReq')
        => /\ ~lastResp'.success
           /\ \/ lastResp'.status = 400
              \/ /\ lastResp'.status = 500
                 /\ lastReq'.action \in {Str(AddPaymentAct), Str(DeleteLoan)}
                 /\ Truthy(lastReq'.loan_name)
                 /\ NameUnresolved(lastReq')
           /\ loans' = loans
           /\ payments' = payments]_vars

-----------------------------------------------------------------------------
(* The parse endpoint: dashboard/src/pages/api/parse-command.ts *)

\* a string literal of the program that is only passed on, never inspected
Msg(text) == [t |-> "string", n |-> 0, s |-> <<text>>]

\* JSON.stringify of an object: keys whose value is undefined are left out
Json(rec) == [k \in {x \in DOMAIN rec : rec[x].t # "undefined"} |-> rec[k]]

\* an error body that carries action and message only
badWithoutShape(status, message) ==
    [status |-> status, body |-> Json([action |-> Str(Unknown), message |-> Msg(message)])]

\* bad(res, status, message)
badParse(status, message) ==
    [status |-> status,
     body |-> Json([action |-> Str(Unknown), parameters |-> Params(NoFields),
                    message |-> Msg(message), need_followup |-> Bool(FALSE),
                    followup_question |-> Null])]

\* the result of JSON.parse on a text: a value of some type; an object has the
\* five fields of LLMParseResponse, each possibly absent (undefined)
JsonNull == [t |-> "null", o |-> [action |-> Undef, parameters |-> NotObject(Undef),
                                  message |-> Undef, need_followup |-> Undef,
                                  followup_question |-> Undef]]

JsonOther(type) == [JsonNull EXCEPT !.t = type]

JsonObject(o) == [t |-> "object", o |-> o]

\* a text field of the upstream payload: absent (or no string), blank, not
\* parseable, or the serialisation of a JSON value
NoText == [kind |-> "absent", json |-> JsonNull]

BlankText == [kind |-> "blank", json |-> JsonNull]

GarbageText == [kind |-> "garbage", json |-> JsonNull]

JsonText(j) == [kind |-> "json", json |-> j]

\* output[].content[].text in list order
RECURSIVE Flatten(_)
Flatten(out) == IF out = <<>> THEN <<>> ELSE Head(out) \o Flatten(Tail(out))

\* the first text that is a non-blank string and parses, else null
RECURSIVE FirstParse(_)
FirstParse(cands) ==
    IF cands = <<>> THEN JsonNull
    ELSE IF Head(cands).kind = "json" THEN Head(cands).json
    ELSE FirstParse(Tail(cands))

\* the shapes tried with the legacy shape first
extractLegacyFirst(payload) ==
    FirstParse(<<payload.legacy>> \o <<payload.output_text>> \o Flatten(payload.output))

\* extractJSON(payload)
extractJSON(payload) ==
    FirstParse(<<payload.output_text>> \o Flatten(payload.output) \o <<payload.legacy>>)

\* parameters || {}
ParamsOrEmpty(parameters) == IF parameters.t = "object" THEN parameters.f ELSE NoFields

\* the structural validation without its check of followup_question
structuralCheckIgnoresFollowupType(o) ==
    \/ ~Truthy(o.action)
    \/ o.message.t # "string"
    \/ o.need_followup.t # "boolean"

\* the structural validation: TRUE when the object is rejected
structuralCheckFails(o) ==
    \/ ~Truthy(o.action)
    \/ o.message.t # "string"
    \/ o.need_followup.t # "boolean"
    \/ ( /\ Truthy(o.need_followup)
         /\ o.followup_question.t # "null"
         /\ o.followup_question.t # "string"
         /\ o.followup_question.t # "undefined" )

\* the 200 response with the model's followup_question passed on as it came
okParseKeepsQuestion(o) ==
    [status |-> 200,
     body |-> Json([action |-> o.action,
                    parameters |-> IF o.parameters.t \in {"undefined", "null"}
                                   THEN Params(NoFields) ELSE o.parameters,
                    message |-> o.message,
                    need_followup |-> o.need_followup,
                    followup_question |-> Coalesce(o.followup_question, Null)])]

\* the 200 response
okParse(o) ==
    [status |-> 200,
     body |-> Json([action |-> o.action,
                    parameters |-> IF o.parameters.t \in {"undefined", "null"}
                                   THEN Params(NoFields) ELSE o.parameters,
                    message |-> o.message,
                    need_followup |-> o.need_followup,
                    followup_question |->
                        IF Truthy(o.need_followup)
                        THEN Coalesce(o.followup_question, Msg("Could you clarify?"))
                        ELSE Null])]

\* an exception thrown inside the try block
Thrown == [status |-> 0, body |-> Json([message |-> Msg("exception")])]

\* the validation of an extracted object, lines 118-162
validateParsed(o) ==
    LET p == ParamsOrEmpty(o.parameters)
        deferred == Truthy(o.need_followup)
    IN  IF structuralCheckFails(o)
        THEN badParse(502, "Structured output missing required fields.")
        ELSE IF ~deferred /\ o.action = Str(CreateLoan)
                /\ (p.loan_name.t # "string" \/ p.amount.t # "number")
        THEN badParse(400, "Missing loan_name or amount for create_loan.")
        ELSE IF ~deferred /\ o.action = Str(AddPaymentAct)
                /\ (p.loan_name.t # "string" \/ p.amount.t # "number")
        THEN badParse(400, "Missing loan_name or amount for add_payment.")
        ELSE IF ~deferred /\ o.action = Str(DeleteLoan)
                /\ p.loan_name.t # "string" /\ p.loan_id.t # "string"
        THEN badParse(400, "Missing loan_name (or loan_id) for delete_loan.")
        ELSE IF o.action = Str(CreateLoan) /\ ~deferred
                /\ o.parameters.t \in {"undefined", "null"}
        THEN Thrown                              \* destructuring undefined or null
        ELSE IF o.action = Str(CreateLoan) /\ ~deferred
                /\ ( ~Truthy(p.loan_name) \/ ~Truthy(p.amount)
                     \/ ~Truthy(p.loan_date) \/ ~Truthy(p.term_months) )
        THEN badParse(400, "Missing required fields for create_loan.")
        ELSE okParse(o)

\* the answer to a non-2xx upstream response with a fixed status 500
upstreamErrorAs500(u) == badParse(500, "OpenAI error")

\* the answer to a non-2xx upstream response: bad(res, r.status, ...)
upstreamError(u) == badParse(u.status, "OpenAI error")

\* the try block, lines 90-162, from the upstream answer u on
tryBlock(u) ==
    IF u.kind = "unreachable" THEN Thrown                \* fetch throws
    ELSE IF u.kind = "status" THEN upstreamError(u)
    ELSE IF u.kind = "notjson" THEN Thrown               \* r.json() throws
    ELSE LET parsed == extractJSON(u.payload)
         IN  IF parsed.t \notin {"object", "array"}      \* !parsed || typeof parsed !== "object"
             THEN badParse(502, "Parser returned no JSON.")
             ELSE validateParsed(parsed.o)

\* the try block without its catch
respondWithoutCatch(u) == tryBlock(u)

\* the handler from the upstream answer u on: the try block and its catch
respond(u) ==
    LET r == tryBlock(u)
    IN  IF r.status = 0 THEN badParse(500, "Parser failed") ELSE r

\* the early checks with the command check placed first
rejectEarlyCommandFirst(req) ==
    IF ~Truthy(req.command) \/ req.command.t # "string"
    THEN badParse(400, "Missing 'command' string in body.")
    ELSE IF req.method # "POST" THEN badParse(405, "Method not allowed.")
    ELSE IF ~req.key THEN badParse(500, "OPENAI_API_KEY is not set.")
    ELSE NoParse

\* the handler before it calls the language model, lines 74-80: the response it
\* gives at once, or status 0 when it goes on to the fetch
rejectEarly(req) ==
    IF req.method # "POST" THEN badParse(405, "Method not allowed.")
    ELSE IF ~req.key THEN badParse(500, "OPENAI_API_KEY is not set.")
    ELSE IF ~Truthy(req.command) \/ req.command.t # "string"
    THEN badParse(400, "Missing 'command' string in body.")
    ELSE NoParse

\* a request to the parse endpoint, as it arrives
ParseRequest(method, key, command) ==
    [method |-> method, key |-> key, command |-> command, phase |-> "received",
     calls |-> 0, upstream |-> [kind |-> "none"]]

ParseRequests ==
    {ParseRequest(m, k, c) : m \in {"POST", "GET"}, k \in BOOLEAN,
                             c \in {Undef, Str(<<>>), Num(5), Str(<<"p", "a", "y">>)}}

\* the handler up to its fetch: it answers at once or calls the language model
ParseReceive ==
    /\ preq.phase = "received"
    /\ LET r == rejectEarly(preq)
       IN  IF r.status # 0
           THEN /\ presp' = r
                /\ preq' = [preq EXCEPT !.phase = "done"]
           ELSE /\ presp' = presp
                /\ preq' = [preq EXCEPT !.phase = "fetching", !.calls = @ + 1]
    /\ UNCHANGED <<storeVars, now, chat>>

\* the handler calling the language model a second time when the first call
\* ends in a response of status 500 or above
ParseAnswerRetries(u) ==
    /\ preq.phase = "fetching"
    /\ IF respond(u).status >= 500 /\ preq.calls < 2
       THEN presp' = presp /\ preq' = [preq EXCEPT !.calls = @ + 1]
       ELSE presp' = respond(u) /\ preq' = [preq EXCEPT !.phase = "done", !.upstream = u]
    /\ UNCHANGED <<storeVars, now, chat>>

\* the language model answers with u (or the fetch fails) and the handler responds
ParseAnswer(u) ==
    /\ preq.phase = "fetching"
    /\ presp' = respond(u)
    /\ preq' = [preq EXCEPT !.phase = "done", !.upstream = u]
    /\ UNCHANGED <<storeVars, now, chat>>

\* parameters objects the language model produces
Fields(name, amount, date, term) ==
    [NoFields EXCEPT !.loan_name = name, !.amount = amount, !.loan_date = date,
                     !.term_months = term]

ModelParams ==
    {NotObject(Undef), NotObject(Null), NotObject(Str(Junk)), Params(NoFields),
     Params(Fields(Str(Ab), Num(1), Str(Date1), Num(12))),
     Params(Fields(Str(Ab), Num(0), Str(Date1), Num(12))),
     Params(Fields(Str(Ab), Num(1), Undef, Num(12))),
     Params(Fields(Str(Ab), Num(1), Str(Date1), Undef)),
     Params(Fields(Str(<<>>), Num(1), Str(Date1), Num(12))),
     Params(Fields(Str(Ab), Str(<<"1">>), Str(Date1), Num(12))),
     Params([NoFields EXCEPT !.loan_id = Uuid(1)])}

\* objects the language model's text parses to
ModelObjects ==
    {[action |-> a, parameters |-> ps, message |-> m, need_followup |-> nf,
      followup_question |-> fq] :
        a \in {Undef, Str(<<>>), Str(CreateLoan), Str(AddPaymentAct), Str(GetLoans),
               Str(DeleteLoan), Str(Unknown), Str(Junk)},
        ps \in ModelParams,
        m \in {Undef, Str(<<>>), Msg("ok")},
        nf \in {Undef, Bool(TRUE), Bool(FALSE), Msg("true")},
        fq \in {Undef, Null, Str(<<>>), Msg("Which loan?"), Num(5)}}

Payload(text, out, legacy) == [output_text |-> text, output |-> out, legacy |-> legacy]

\* the shapes in which a text t reaches the handler, and shapes with no parseable text
PayloadsWith(t) ==
    {Payload(t, <<>>, NoText),
     Payload(GarbageText, <<<<BlankText, t>>>>, NoText),
     Payload(NoText, <<<<>>, <<GarbageText>>, <<t, GarbageText>>>>, NoText),
     Payload(BlankText, <<<<NoText>>>>, t)}

UnparseablePayloads ==
    {Payload(a, <<<<b>>>>, c) : a, b, c \in {NoText, BlankText, GarbageText}}

\* payloads with several texts that parse, to different values
MixedPayloads ==
    LET listing == JsonText(JsonObject(
            [action |-> Str(GetLoans), parameters |-> Params(NoFields), message |-> Msg("ok"),
             need_followup |-> Bool(FALSE), followup_question |-> Null]))
    IN  {Payload(listing, <<<<JsonText(JsonOther("number"))>>>>, JsonText(JsonOther("string"))),
         Payload(GarbageText, <<<<BlankText>>, <<JsonText(JsonOther("array")), listing>>>>,
                 JsonText(JsonOther("number"))),
         Payload(NoText, <<<<JsonText(JsonOther("null")), listing>>>>, listing),
         Payload(NoText, <<>>, listing)}

\* what the fetch of the language model can come to
UpstreamAnswers ==
    {[kind |-> "unreachable"], [kind |-> "notjson"]}
    \cup {[kind |-> "json", payload |-> pl] : pl \in MixedPayloads}
    \cup {[kind |-> "status", status |-> s] : s \in {400, 401, 404, 429, 500, 503}}
    \cup {[kind |-> "json", payload |-> pl] : pl \in UnparseablePayloads}
    \cup {[kind |-> "json", payload |-> pl] :
            pl \in UNION {PayloadsWith(JsonText(JsonOther(ty))) : ty \in {"null", "number", "string", "array"}}}
    \cup {[kind |-> "json", payload |-> Payload(JsonText(JsonObject(o)), <<>>, NoText)] : o \in ModelObjects}
    \cup {[kind |-> "json", payload |-> pl] :
            pl \in PayloadsWith(JsonText(JsonObject(
                [action |-> Str(GetLoans), parameters |-> Params(NoFields), message |-> Msg("ok"),
                 need_followup |-> Bool(FALSE), followup_question |-> Null])))}

InitParse ==
    /\ InitStore
    /\ preq \in ParseRequests
    /\ presp = NoParse
    /\ chat = ChatIdle

NextParse == ParseReceive \/ \E u \in UpstreamAnswers : ParseAnswer(u)

\* the parse endpoint serving one request
SpecParse == InitParse /\ [][NextParse]_vars

-----------------------------------------------------------------------------
(* Claims about the parse endpoint *)

ParseDone == preq.phase = "done"

Candidates(payload) == <<payload.output_text>> \o Flatten(payload.output) \o <<payload.legacy>>

NothingParses(u) ==
    u.kind = "json" /\ \A i \in 1..Len(Candidates(u.payload)) : Candidates(u.payload)[i].kind # "json"

\* C8: when the language model answers successfully and none of its text
\* fields parses as JSON, the response is 502 with action "unknown"; and every
\* request ends with a response: no exception leaves the handler, also when
\* the upstream body is not JSON or the fetch fails.
C8_UnparseableGives502 ==
    ParseDone =>
        /\ presp.status # 0
        /\ NothingParses(preq.upstream) =>
              (presp.status = 502 /\ presp.body["action"] = Str(Unknown))

\* a successful upstream answer with an unparseable text and no parseable one, answered
C8_Witness ==
    /\ ParseDone
    /\ NothingParses(preq.upstream)
    /\ preq.upstream.payload.output_text.kind = "garbage"
    /\ presp.status = 502

FiveFields == {"action", "parameters", "message", "need_followup", "followup_question"}

\* C9: every response carries the five fields; every response with a status
\* other than 200 has action "unknown", parameters {}, need_followup false and
\* followup_question null.
C9_FiveFieldShape ==
    ParseDone =>
        /\ DOMAIN presp.body = FiveFields
        /\ presp.status # 200 =>
              /\ presp.body["action"] = Str(Unknown)
              /\ presp.body["parameters"] = Params(NoFields)
              /\ presp.body["need_followup"] = Bool(FALSE)
              /\ presp.body["followup_question"] = Null

\* a 200 response to a model output that carried neither parameters nor a question
C9_Witness ==
    /\ ParseDone
    /\ presp.status = 200
    /\ preq.upstream.kind = "json"
    /\ extractJSON(preq.upstream.payload).o.parameters.t = "undefined"
    /\ extractJSON(preq.upstream.payload).o.followup_question.t = "undefined"
    /\ DOMAIN presp.body = FiveFields

\* C10 as stated: an unreachable or non-2xx language model gives status 500,
\* and the statuses of the endpoint are exactly 200, 400, 405, 500 and 502.
C10_UpstreamFailureIs500 ==
    ParseDone =>
        /\ presp.status \in {200, 400, 405, 500, 502}
        /\ preq.upstream.kind \in {"unreachable", "status"} => presp.status = 500

\* C10 amended: an unreachable language model gives status 500; a non-2xx
\* answer is passed on with the upstream's own status and action "unknown";
\* the statuses of the endpoint are 200, 400, 405, 500, 502 and the non-2xx
\* statuses of the upstream.
C10_UpstreamStatusPassedOn ==
    ParseDone =>
        /\ preq.upstream.kind = "unreachable" => presp.status = 500
        /\ preq.upstream.kind = "status" =>
              (presp.status = preq.upstream.status /\ presp.body["action"] = Str(Unknown))
        /\ preq.upstream.kind # "status" => presp.status \in {200, 400, 405, 500, 502}

\* the upstream answered 429 and so did the endpoint
C10_Witness ==
    /\ ParseDone
    /\ preq.upstream.kind = "status"
    /\ preq.upstream.status = 429
    /\ presp.status = 429

\* the command of a request that the handler refuses: missing, empty or no string
BadCommand(c) == ~Truthy(c) \/ c.t # "string"

\* C11: a parse request with a method other than POST is answered 405, one
\* without a configured API key 500, one with a missing, empty or non-string
\* command 400, in this order of precedence, and on none of these paths is the
\* language model called.
C11_RejectedBeforeUpstream ==
    (ParseDone /\ (preq.method # "POST" \/ ~preq.key \/ BadCommand(preq.command)))
        => /\ preq.calls = 0
           /\ preq.upstream.kind = "none"
           /\ preq.method # "POST" => presp.status = 405
           /\ (preq.method = "POST" /\ ~preq.key) => presp.status = 500
           /\ (preq.method = "POST" /\ preq.key) => presp.status = 400

\* a POST without API key and without command, answered 500 with no upstream call
C11_Witness ==
    /\ ParseDone
    /\ preq.method = "POST"
    /\ ~preq.key
    /\ preq.command = Undef
    /\ presp.status = 500
    /\ preq.calls = 0

\* the object the handler extracted from the upstream answer of the request
ModelOutput == extractJSON(preq.upstream.payload).o

\* C12: in every 200 response, followup_question is a string when
\* need_followup is true (the model's own question, or "Could you clarify?"
\* when the model gave null or none) and null when need_followup is false.
C12_FollowupQuestionNormalized ==
    (ParseDone /\ presp.status = 200)
        => IF Truthy(presp.body["need_followup"])
           THEN /\ presp.body["followup_question"].t = "string"
                /\ ModelOutput.followup_question.t = "string"
                      => presp.body["followup_question"] = ModelOutput.followup_question
                /\ ModelOutput.followup_question.t \in {"null", "undefined"}
                      => presp.body["followup_question"] = Msg("Could you clarify?")
           ELSE presp.body["followup_question"] = Null

\* a 200 response with the generic question, the model having given none
C12_Witness ==
    /\ ParseDone
    /\ presp.status = 200
    /\ ModelOutput.need_followup = Bool(TRUE)
    /\ ModelOutput.followup_question = Undef
    /\ presp.body["followup_question"] = Msg("Could you clarify?")

\* the values of Action
Actions == {Str(CreateLoan), Str(AddPaymentAct), Str(GetLoans), Str(DeleteLoan), Str(Unknown)}

\* C13: every 200 response has an action among create_loan, add_payment,
\* get_loans, delete_loan, unknown, and a message that is a non-empty string.
C13_ActionEnumeratedMessageNonEmpty ==
    (ParseDone /\ presp.status = 200)
        => /\ presp.body["action"] \in Actions
           /\ presp.body["message"].t = "string"
           /\ presp.body["message"].s # <<>>

-----------------------------------------------------------------------------
(* The chat component: parseCommand, execute, onSend *)

\* the result parseCommand falls back to when the request fails or is not ok
ParseFallback ==
    [action |-> Str(Unknown), parameters |-> Params(NoFields),
     message |-> Msg("Sorry, I couldn't understand that."),
     need_followup |-> Bool(FALSE), followup_question |-> Null]

\* parseCommand, given the response of the parse endpoint (status 0: the fetch failed)
parseCommand(r) == IF r.status \in 200..299 THEN r.body ELSE ParseFallback

Reply(kind) == [kind |-> kind, shown |-> <<>>, count |-> 0, named |-> {}]

\* what execute does before any await: a reply at once, or a call of the action endpoint
Call(payload) == [call |-> TRUE, payload |-> payload, reply |-> NoReply]

Answer(reply) == [call |-> FALSE, payload |-> NoBody, reply |-> reply]

\* the create_loan guard of execute: the fields it reports missing
MissingOfCreate(p) ==
    {f \in {"loan_name", "loan_date"} : ~Truthy(p[f])}
    \cup {f \in {"amount", "term_months"} : p[f].t # "number"}

executeStart(parsed) ==
    LET action == parsed["action"]
        p == ParamsOrEmpty(parsed["parameters"])
    IN  IF action = Str(GetLoans) THEN Call(GetBody)
        ELSE IF action = Str(AddPaymentAct)
        THEN IF ~Truthy(p.loan_name) \/ p.amount.t # "number"
             THEN Answer(Reply("error"))
             ELSE Call([NoBody EXCEPT !.action = Str(AddPaymentAct),
                                      !.loan_name = p.loan_name,
                                      !.amount = p.amount,
                                      !.paid_by = Coalesce(p.person, Str(Steven)),
                                      !.payment_date = p.payment_date])
        ELSE IF action = Str(CreateLoan)
        THEN IF MissingOfCreate(p) # {}
             THEN Answer([Reply("error") EXCEPT !.named = MissingOfCreate(p)])
             ELSE Call([NoBody EXCEPT !.action = Str(CreateLoan),
                                      !.name = p.loan_name,
                                      !.original_amount = p.amount,
                                      !.loan_type = IF Truthy(p.loan_type) THEN p.loan_type
                                                    ELSE Str(General),
                                      !.term_months = p.term_months,
                                      !.loan_date = p.loan_date])
        ELSE IF action = Str(DeleteLoan)
        THEN Call([NoBody EXCEPT !.action = Str(DeleteLoan), !.loan_id = p.loan_id,
                                 !.loan_name = p.loan_name])
        ELSE Answer(Reply("error"))

\* Array.prototype.find: the first element of the list among those at the
\* positions hits, as a list of one element, or the empty list
Find(list, hits) ==
    IF hits = {} THEN <<>>
    ELSE <<list[CHOOSE i \in hits : \A j \in hits : i <= j]>>

\* the three find calls with the prefix match tried before the exact match
pickLoanPrefixFirst(derived, q) ==
    LET at == DOMAIN derived
        exact == Find(derived, {i \in at : ToLowerCase(derived[i].name) = q})
        starts == Find(derived, {i \in at : StartsWith(ToLowerCase(derived[i].name), q)})
        fuzzy == Find(derived, {i \in at : Includes(ToLowerCase(derived[i].name), q)})
    IN  IF starts # <<>> THEN starts ELSE IF exact # <<>> THEN exact ELSE fuzzy

\* the three find calls of execute (get_loans): exact || starts || fuzzy
pickLoan(derived, q) ==
    LET at == DOMAIN derived
        exact == Find(derived, {i \in at : ToLowerCase(derived[i].name) = q})
        starts == Find(derived, {i \in at : StartsWith(ToLowerCase(derived[i].name), q)})
        fuzzy == Find(derived, {i \in at : Includes(ToLowerCase(derived[i].name), q)})
    IN  IF exact # <<>> THEN exact ELSE IF starts # <<>> THEN starts ELSE fuzzy

\* execute with the not-found message stating the number of loans found
executeFinishCountsMatches(parsed, resp) ==
    LET p == ParamsOrEmpty(parsed["parameters"])
    IN  IF resp.status \notin 200..299 THEN Reply("caught")
        ELSE IF ~resp.success THEN Reply("error")
        ELSE IF parsed["action"] # Str(GetLoans) THEN Reply("success")
        ELSE IF ~Truthy(p.loan_name)
        THEN [Reply("portfolio") EXCEPT !.shown = resp.data.list]
        ELSE IF p.loan_name.t # "string" THEN Reply("caught")       \* .trim() throws
        ELSE LET target == pickLoan(resp.data.list, ToLowerCase(Trim(p.loan_name.s)))
             IN  IF target = <<>>
                 THEN [Reply("notfound") EXCEPT !.count = Len(target)]
                 ELSE [Reply("loan") EXCEPT !.shown = target]

\* execute after the action endpoint has answered resp (callLoanManager throws
\* on a response that is not ok, and onSend catches it)
executeFinish(parsed, resp) ==
    LET p == ParamsOrEmpty(parsed["parameters"])
    IN  IF resp.status \notin 200..299 THEN Reply("caught")
        ELSE IF ~resp.success THEN Reply("error")
        ELSE IF parsed["action"] # Str(GetLoans) THEN Reply("success")
        ELSE IF ~Truthy(p.loan_name)
        THEN [Reply("portfolio") EXCEPT !.shown = resp.data.list]
        ELSE IF p.loan_name.t # "string" THEN Reply("caught")       \* .trim() throws
        ELSE LET target == pickLoan(resp.data.list, ToLowerCase(Trim(p.loan_name.s)))
             IN  IF target = <<>>
                 THEN [Reply("notfound") EXCEPT !.count = Len(resp.data.list)]
                 ELSE [Reply("loan") EXCEPT !.shown = target]

\* onSend up to its first await: the message is shown, the flag is set and the
\* parse request is sent
OnSend ==
    /\ ~chat.isLoading
    /\ chat.pc = "idle"
    /\ chat' = [ChatIdle EXCEPT !.isLoading = TRUE, !.pc = "parsing", !.parses = 1]
    /\ UNCHANGED <<storeVars, now, preq, presp>>

\* onSend ending without its finally
FinishedKeepsLoading(c) == [c EXCEPT !.pc = "idle"]

\* setIsLoading(false) in the finally of onSend
Finished(c) == [c EXCEPT !.isLoading = FALSE, !.pc = "idle"]

\* onSend calling execute only for a command whose fields are complete
OnParsedGuardsFields(r) ==
    LET parsed == parseCommand(r)
        c == [chat EXCEPT !.parsed = parsed]
        e == executeStart(parsed)
    IN  /\ chat.pc = "parsing"
        /\ chat' =
             IF Truthy(parsed["need_followup"]) /\ Truthy(parsed["followup_question"])
             THEN Finished([c EXCEPT !.reply = Reply("followup")])
             ELSE IF parsed["action"] = Str(Unknown)
             THEN Finished([c EXCEPT !.reply = Reply("unknown")])
             ELSE IF e.call
             THEN [c EXCEPT !.pc = "executing", !.payload = e.payload, !.runs = @ + 1,
                            !.calls = @ + 1]
             ELSE Finished([c EXCEPT !.reply = e.reply])
        /\ UNCHANGED <<storeVars, now, preq, presp>>

\* the parse endpoint has answered r: onSend shows the follow-up question or
\* the unknown message, or starts execute
OnParsed(r) ==
    LET parsed == parseCommand(r)
        c == [chat EXCEPT !.parsed = parsed]
        e == executeStart(parsed)
    IN  /\ chat.pc = "parsing"
        /\ chat' =
             IF Truthy(parsed["need_followup"]) /\ Truthy(parsed["followup_question"])
             THEN Finished([c EXCEPT !.reply = Reply("followup")])
             ELSE IF parsed["action"] = Str(Unknown)
             THEN Finished([c EXCEPT !.reply = Reply("unknown")])
             ELSE IF e.call
             THEN [c EXCEPT !.pc = "executing", !.payload = e.payload, !.runs = @ + 1,
                            !.calls = @ + 1]
             ELSE Finished([c EXCEPT !.reply = e.reply, !.runs = @ + 1])
        /\ UNCHANGED <<storeVars, now, preq, presp>>

\* the action endpoint serves the request of execute, and onSend shows the replies
OnExecuted ==
    /\ chat.pc = "executing"
    /\ WithinBounds(chat.payload)
    /\ \E o \in serve(chat.payload) :
          /\ Served(chat.payload, o)
          /\ chat' = Finished([chat EXCEPT !.res = o.resp,
                                           !.reply = executeFinish(chat.parsed, o.resp)])
    /\ UNCHANGED <<now, preq, presp>>

\* the request of execute never reaches the action endpoint: fetch throws
OnExecuteFailed ==
    /\ chat.pc = "executing"
    /\ chat' = Finished([chat EXCEPT !.reply = Reply("caught")])
    /\ UNCHANGED <<storeVars, now, preq, presp>>

\* what the language model makes of the messages typed into the chat
ChatObject(action, f, nf, fq) ==
    [action |-> Str(action), parameters |-> Params(f), message |-> Msg("ok"),
     need_followup |-> Bool(nf), followup_question |-> fq]

\* what the language model makes of messages that create, pay and list:
\* complete commands, and commands it marks as needing a follow-up
ChatObjects ==
    {ChatObject(GetLoans, NoFields, FALSE, Null), ChatObject(Unknown, NoFields, FALSE, Null)}
    \cup {ChatObject(CreateLoan, Fields(Str(Ab), Num(1), Str(Date1), Num(12)), FALSE, Null)}
    \cup {ChatObject(CreateLoan, Fields(Str(Ab), Num(1), Str(Date1), Num(12)), TRUE, fq) :
            fq \in {Undef, Str(<<>>), Msg("Which loan?")}}
    \cup {ChatObject(CreateLoan, Fields(Str(Ab), Num(1), Undef, Undef), TRUE, Msg("Date and term?"))}
    \cup {ChatObject(AddPaymentAct,
                     [NoFields EXCEPT !.loan_name = Str(Ab), !.amount = Num(1), !.person = who],
                     FALSE, Null) : who \in {Undef, Null, Str(Katerina)}}
    \cup {ChatObject(AddPaymentAct, [NoFields EXCEPT !.loan_name = Str(Ab), !.amount = Num(1)],
                     TRUE, fq) : fq \in {Str(<<>>), Msg("Who paid?")}}
    \cup {ChatObject(AddPaymentAct, [NoFields EXCEPT !.loan_name = Str(<<>>), !.amount = Num(1)],
                     FALSE, Null),
          ChatObject(Junk, NoFields, FALSE, Null)}

\* the 200 responses of the parse endpoint for the objects objs of the language model
ParsedAs(objs) ==
    {respond([kind |-> "json", payload |-> Payload(JsonText(JsonObject(o)), <<>>, NoText)]) :
        o \in objs}

\* the responses the parse endpoint can give to the chat's request
ChatParseResponses ==
    ParsedAs(ChatObjects)
    \cup {respond([kind |-> "unreachable"]), respond([kind |-> "status", status |-> 429]),
          [status |-> 0, body |-> ParseFallback]}

\* requests other callers send straight to the action endpoint
DirectBodies ==
    {[PayById(1, Num(1)) EXCEPT !.paid_by = pb] : pb \in {Undef, Str(Katerina)}}

InitChat == Init

NextChat ==
    \/ OnSend
    \/ \E r \in ChatParseResponses : OnParsed(r)
    \/ OnExecuted
    \/ OnExecuteFailed
    \/ \E b \in DirectBodies : Request(b)

\* the chat, the parse endpoint and the action endpoint together
SpecChat == InitChat /\ [][NextChat]_vars

\* loan names as the chat's users spell them
ChatQueries == {Str(<<"A", "B">>), Str(<<" ", "a", "b", " ">>), Str(<<"a">>), Str(<<"b">>), Str(<<"d">>)}

\* what the language model makes of messages that add loans, ask for one by
\* name, pay one and delete one
LookupObjects ==
    {ChatObject(CreateLoan, Fields(Str(n), Num(1), Str(Date1), Num(12)), FALSE, Null) :
        n \in {Ab, Abc, Cab}}
    \cup {ChatObject(GetLoans, [NoFields EXCEPT !.loan_name = q], FALSE, Null) : q \in ChatQueries}
    \cup {ChatObject(DeleteLoan, [NoFields EXCEPT !.loan_name = Str(Ab)], FALSE, Null),
          ChatObject(AddPaymentAct, [NoFields EXCEPT !.loan_name = Str(Ab), !.amount = Num(1)],
                     FALSE, Null)}

NextLookup ==
    \/ OnSend
    \/ \E r \in ParsedAs(LookupObjects) : OnParsed(r)
    \/ OnExecuted
    \/ OnExecuteFailed

\* the chat looking loans up by name
SpecLookup == InitChat /\ [][NextLookup]_vars

-----------------------------------------------------------------------------
(* Claims about the chat flow *)

\* a step of the chat component
ChatStep == chat' # chat

\* C1: when the parse result of a message has need_followup = true, onSend
\* makes no call to the action endpoint for it and no loan or payment record
\* is created, changed or deleted.
C1_FollowupNeverExecutes ==
    [][(ChatStep /\ Truthy(chat'.parsed["need_followup"]))
        => (chat'.calls = 0 /\ loans' = loans /\ payments' = payments)]_vars

LoanNameOf(parsed) == ParamsOrEmpty(parsed["parameters"]).loan_name

MinOf(S) == CHOOSE i \in S : \A j \in S : i <= j

\* C4: get_loans with a loan_name shows exactly one loan, chosen over the
\* fetched list by the trimmed, lower-cased query: a loan whose name equals it,
\* else the first whose name starts with it, else the first whose name contains
\* it; an exact match wins over any prefix or substring match whatever the
\* list order, and a prefix match over a substring-only match.
C4_ThreeTierChoice ==
    [][( /\ chat.pc = "executing"
         /\ ChatStep
         /\ chat.parsed["action"] = Str(GetLoans)
         /\ LoanNameOf(chat.parsed).t = "string"
         /\ Truthy(LoanNameOf(chat.parsed))
         /\ chat'.res.success )
        => LET list == NewestFirst(loans)
               q == ToLowerCase(Trim(LoanNameOf(chat.parsed).s))
               E == {i \in DOMAIN list : ToLowerCase(list[i].name) = q}
               S == {i \in DOMAIN list : StartsWith(ToLowerCase(list[i].name), q)}
               F == {i \in DOMAIN list : Includes(ToLowerCase(list[i].name), q)}
           IN  IF E \cup S \cup F = {}
               THEN chat'.reply.kind = "notfound"
               ELSE /\ chat'.reply.kind = "loan"
                    /\ Len(chat'.reply.shown) = 1
                    /\ \E i \in DOMAIN list :
                          /\ chat'.reply.shown[1] = list[i]
                          /\ E # {} => i \in E
                          /\ (E = {} /\ S # {}) => i = MinOf(S)
                          /\ (E = {} /\ S = {}) => i = MinOf(F)]_vars

\* the loan shown is an exact match listed after a loan that matches by prefix only
C4_Witness ==
    /\ chat.pc = "idle"
    /\ chat.reply.kind = "loan"
    /\ LET q == ToLowerCase(Trim(LoanNameOf(chat.parsed).s))
       IN  /\ ToLowerCase(chat.reply.shown[1].name) = q
           /\ \E r \in loans :
                 /\ r.id > chat.reply.shown[1].id
                 /\ StartsWith(ToLowerCase(r.name), q)
                 /\ ToLowerCase(r.name) # q

PersonOf(parsed) == ParamsOrEmpty(parsed["parameters"]).person

\* C6: an add_payment that carries no paid_by (no person in the parsed
\* parameters of the chat, no paid_by in the request to the action endpoint)
\* records the payment with paid_by = "Steven".
C6_DefaultPayerIsSteven ==
    [][( /\ nextPid' = nextPid + 1
         /\ \/ lastReq'.paid_by = Undef
            \/ chat.pc = "executing" /\ ChatStep
               /\ PersonOf(chat.parsed).t \in {"undefined", "null"} )
        => Inserted(payments', nextPid).paid_by = Steven]_vars

\* the chat has recorded a payment for a message that named no person
C6_Witness ==
    /\ chat.pc = "idle"
    /\ chat.parsed["action"] = Str(AddPaymentAct)
    /\ PersonOf(chat.parsed) = Undef
    /\ chat.reply.kind = "success"
    /\ lastReq.paid_by = Str(Steven)
    /\ \E p \in payments : p.id = nextPid - 1 /\ p.paid_by = Steven

\* the parse result of the current message has arrived
ParseArrived == chat.parses = 1 /\ chat.pc # "parsing"

\* C15: once the parse result of a message has arrived with need_followup =
\* false and an action other than unknown, execute has been invoked exactly
\* once for it, and it stays at one invocation when the call of the action
\* endpoint succeeds, is answered with an error, or throws; no message ever
\* has more than one invocation.
C15_ExecutedExactlyOnce ==
    /\ chat.runs <= 1
    /\ ( /\ ParseArrived
         /\ ~Truthy(chat.parsed["need_followup"])
         /\ chat.parsed["action"] # Str(Unknown) )
        => chat.runs = 1

\* a payment command whose request to the action endpoint threw: one invocation
C15_Witness ==
    /\ chat.pc = "idle"
    /\ chat.parsed["action"] = Str(AddPaymentAct)
    /\ chat.parsed["need_followup"] = Bool(FALSE)
    /\ chat.reply.kind = "caught"
    /\ chat.runs = 1

\* C16: a get_loans request leaves the loans and the payments as they are, at
\* the action endpoint and in the chat's execute, with or without a
\* loan_name, matched or not; when the loan_name matches no loan the chat
\* answers with the not-found message, which states the number of loans.
C16_GetLoansReadsOnly ==
    [][ /\ lastReq'.action = Str(GetLoans) => (loans' = loans /\ payments' = payments)
        /\ ( /\ chat.pc = "executing"
             /\ ChatStep
             /\ chat.parsed["action"] = Str(GetLoans) )
            => /\ loans' = loans
               /\ payments' = payments
               /\ ( /\ chat'.res.success
                    /\ LoanNameOf(chat.parsed).t = "string"
                    /\ Truthy(LoanNameOf(chat.parsed))
                    /\ \A r \in loans :
                          ~Includes(ToLowerCase(r.name),
                                    ToLowerCase(Trim(LoanNameOf(chat.parsed).s))) )
                   => ( /\ chat'.reply.kind = "notfound"
                        /\ chat'.reply.count = Cardinality(loans) ) ]_vars

\* the chat has answered not found for a name of no loan, with two loans and a payment stored
C16_Witness ==
    /\ chat.pc = "idle"
    /\ chat.parsed["action"] = Str(GetLoans)
    /\ chat.reply.kind = "notfound"
    /\ chat.reply.count = 2
    /\ Cardinality(loans) = 2
    /\ payments # {}

-----------------------------------------------------------------------------
(* One message through the chat, the parse endpoint and the action endpoint *)

\* onSend, with the request it sends arriving at the parse endpoint
OnSendRequest ==
    /\ ~chat.isLoading
    /\ chat.pc = "idle"
    /\ chat' = [ChatIdle EXCEPT !.isLoading = TRUE, !.pc = "parsing", !.parses = 1]
    /\ preq' = ParseRequest("POST", TRUE, Str(<<"p", "a", "y">>))
    /\ presp' = NoParse
    /\ UNCHANGED <<storeVars, now>>

\* the response of the parse endpoint reaches parseCommand
OnParsedResponse == preq.phase = "done" /\ OnParsed(presp)

\* the fetch of the parse endpoint fails
OnParseFailed == preq.phase \in {"received", "fetching"} /\ OnParsed([status |-> 0, body |-> ParseFallback])

\* what the language model makes of the messages: create_loan commands that
\* are complete, that lack fields and that it defers, and a listing
TurnObjects ==
    {ChatObject(CreateLoan, Fields(n, a, d, m), FALSE, Null) :
        n \in {Undef, Str(Ab)}, a \in {Undef, Num(1)}, d \in {Null, Str(Date1)},
        m \in {Undef, Num(12), Str(<<"1", "2">>)}}
    \cup {ChatObject(CreateLoan, Fields(Str(Ab), Num(1), Undef, Undef), TRUE, fq) :
            fq \in {Str(<<>>), Msg("Date and term?")}}
    \cup {ChatObject(GetLoans, NoFields, FALSE, Null), ChatObject(Unknown, NoFields, FALSE, Null)}

\* the answers of the language model to the request of the parse endpoint
TurnAnswers ==
    {[kind |-> "unreachable"], [kind |-> "notjson"], [kind |-> "status", status |-> 429],
     [kind |-> "json", payload |-> Payload(GarbageText, <<>>, NoText)]}
    \cup {[kind |-> "json", payload |-> Payload(JsonText(JsonObject(o)), <<>>, NoText)] :
            o \in TurnObjects}

NextTurn ==
    \/ OnSendRequest
    \/ ParseReceive
    \/ \E u \in TurnAnswers : ParseAnswer(u)
    \/ OnParsedResponse
    \/ OnParseFailed
    \/ OnExecuted
    \/ OnExecuteFailed

\* no message sent yet: no request at the parse endpoint
InitTurn ==
    /\ InitStore
    /\ preq = [ParseRequest("POST", TRUE, Undef) EXCEPT !.phase = "none"]
    /\ presp = NoParse
    /\ chat = ChatIdle

\* the messages of the chat, each taken through both endpoints
SpecTurn == InitTurn /\ [][NextTurn]_vars

\* the same, with every network call returning or failing: the parse endpoint
\* goes on with a request it has, the fetch of parseCommand ends with a
\* response or an error, and so does the fetch of callLoanManager
SpecTurnLive ==
    /\ SpecTurn
    /\ WF_vars(ParseReceive)
    /\ WF_vars(\E u \in TurnAnswers : ParseAnswer(u))
    /\ WF_vars(OnParsedResponse \/ OnParseFailed)
    /\ WF_vars(OnExecuted \/ OnExecuteFailed)

\* the language model has answered the last message with a create_loan it does
\* not defer, and the chat has shown its reply
CreateNotDeferred ==
    /\ chat.parses = 1
    /\ chat.pc = "idle"
    /\ preq.phase = "done"
    /\ chat.parsed = parseCommand(presp)
    /\ preq.upstream.kind = "json"
    /\ extractJSON(preq.upstream.payload).t = "object"
    /\ ModelOutput.action = Str(CreateLoan)
    /\ ModelOutput.need_followup = Bool(FALSE)

\* the required fields a create_loan command lacks
LacksOfCreate(p) == {f \in {"loan_name", "amount", "loan_date", "term_months"} : Missing(p[f])}

\* C18: when the language model's create_loan command is not deferred to a
\* follow-up and lacks required fields, the reply the chat shows names every
\* one of the fields it lacks, whether the parse endpoint rejects the command
\* or the guard of execute does.
C18_MissingFieldsNamed ==
    CreateNotDeferred =>
        LacksOfCreate(ParamsOrEmpty(ModelOutput.parameters)) \subseteq chat.reply.named

-----------------------------------------------------------------------------
(* The payments in the store *)

\* C19: every payment in the store has paid_by "Steven" or "Katerina" in
\* exactly this casing and an amount above zero, whatever paid_by and amount
\* the add_payment requests carried.
C19_PaymentsCanonicalAndPositive ==
    \A p \in payments : p.paid_by \in {Steven, Katerina} /\ p.amount > 0

\* a payment sent with paid_by " KATERINA " is stored, and so is one sent with "Bob"
C19_Witness ==
    /\ lastReq.action = Str(AddPaymentAct)
    /\ lastReq.paid_by = Str(<<" ", "K", "A", "T", "E", "R", "I", "N", "A", " ">>)
    /\ lastResp.success
    /\ \E p \in payments : p.id = nextPid - 1 /\ p.paid_by = Katerina
    /\ \E p \in payments : p.paid_by = Steven

-----------------------------------------------------------------------------
(* The requests one message causes *)

-----------------------------------------------------------------------------
(* The writes of one request *)

\* C21: a delete_loan request, ending with success or with an error, leaves
\* every loan either in the store with all the payments it had, or out of the
\* store with none of its payments left: it never removes the payments of a
\* loan and keeps the loan.
C21_DeleteAllOrNothing ==
    [][lastReq'.action = Str(DeleteLoan)
        => \A r \in loans :
              \/ /\ r \in loans'
                 /\ {p \in payments' : p.loan_id = r.id} = PaymentsOf(r.id)
              \/ /\ r \notin loans'
                 /\ {p \in payments' : p.loan_id = r.id} = {}]_vars

\* the rows of loans with the balance of the loan id lowered by amount, not below 0
Lowered(id, amount) ==
    {IF r.id = id THEN [r EXCEPT !.current_balance = Max(0, r.current_balance - amount)] ELSE r :
        r \in loans}

\* C22: an add_payment answered with success has inserted exactly one payment
\* row, for its loan and of its amount, and has replaced the loan's
\* current_balance by max(0, balance - amount); an add_payment answered with
\* an error after its payment row was inserted leaves that one row in the
\* store and every current_balance as it was.
C22_SuccessOnlyAfterBothWrites ==
    [][lastReq'.action = Str(AddPaymentAct)
        => /\ lastResp'.success
                => /\ \E p \in payments' \ payments :
                        /\ payments' = payments \cup {p}
                        /\ p.loan_id = lastResp'.data.loan_id.n
                        /\ p.amount = lastReq'.amount.n
                   /\ loans' = Lowered(lastResp'.data.loan_id.n, lastReq'.amount.n)
           /\ (~lastResp'.success /\ payments' # payments)
                => /\ \E p \in payments' \ payments : payments' = payments \cup {p}
                   /\ loans' = loans]_vars

\* an add_payment answered with status 500, its payment recorded and the
\* balance of its loan not lowered by it
C22_Witness ==
    /\ lastReq.action = Str(AddPaymentAct)
    /\ lastResp.status = 500
    /\ \E r \in loans :
          /\ r.id = lastReq.loan_id.n
          /\ r.current_balance > 0
          /\ SumAmounts(PaymentsOf(r.id)) > r.original_amount - r.current_balance
          /\ \E p \in PaymentsOf(r.id) : p.id = nextPid - 1

-----------------------------------------------------------------------------
(* Concurrent add_payment calls *)

\* no call has had its rpc answered with an error
PrimaryOnly ==
    \A c \in 1..MaxCalls : \A i \in DOMAIN inflight[c].log :
        ~(inflight[c].log[i].op = "rpc" /\ inflight[c].log[i].err)

\* the sum of the amounts of the calls of S that ended with success
RECURSIVE SumOk(_)
SumOk(S) ==
    IF S = {} THEN 0
    ELSE LET c == CHOOSE x \in S : TRUE
         IN  (IF inflight[c].pc = "ok" THEN inflight[c].amount ELSE 0) + SumOk(S \ {c})

\* C23: while every add_payment call on the loan has its balance write done
\* by the rpc decrement_loan_balance, the loan's current_balance is
\* max(0, original balance - sum of the amounts of the calls that succeeded),
\* in every interleaving of the calls' steps: no update is lost.
C23_AtomicDecrementLosesNothing ==
    PrimaryOnly =>
        \A r \in loans :
            r.id = 1 => r.current_balance = Max(0, r.original_amount - SumOk(1..MaxCalls))

\* every call has ended with success through the rpc, their inserts and
\* decrements interleaved, and the balance has reached the floor
C23_Witness ==
    /\ PrimaryOnly
    /\ \A c \in 1..MaxCalls : inflight[c].pc = "ok"
    /\ SumOk(1..MaxCalls) > MaxAmount
    /\ \E r \in loans : r.id = 1 /\ r.current_balance = 0

\* the call c has ended with success through the fallback's update
ViaFallback(c) ==
    /\ inflight[c].pc = "ok"
    /\ \E i \in DOMAIN inflight[c].log : inflight[c].log[i].op = "update"

\* C24: with add_payment calls on one loan taking the fallback (read
\* current_balance, write max(0, balance - amount)), an update can be lost:
\* the balance is never below max(0, original balance - sum of the amounts of
\* the calls that succeeded), it can stay above it with every call answered
\* with success and every payment row recorded, and once a call has
\* succeeded it is at most the original balance lowered by the smallest
\* amount of such a call.
C24_FallbackCanLoseUpdate ==
    \A r \in loans :
        r.id = 1 =>
            /\ r.current_balance >= Max(0, r.original_amount - SumOk(1..MaxCalls))
            /\ \A c \in 1..MaxCalls :
                  inflight[c].pc = "ok" =>
                      \E d \in 1..MaxCalls :
                          /\ inflight[d].pc = "ok"
                          /\ r.current_balance <= Max(0, r.original_amount - inflight[d].amount)

\* two calls on the loan have both ended with success through the fallback,
\* both payment rows are recorded, no call is in flight, and the balance is
\* above max(0, original balance - sum of the amounts)
C24_Witness ==
    /\ \E c, d \in 1..MaxCalls : c # d /\ ViaFallback(c) /\ ViaFallback(d)
    /\ \A c \in 1..MaxCalls : inflight[c].pc \in {"idle", "ok", "failed"}
    /\ \E r \in loans :
          /\ r.id = 1
          /\ Cardinality(PaymentsOf(1)) >= 2
          /\ SumAmounts(PaymentsOf(1)) = SumOk(1..MaxCalls)
          /\ r.current_balance > Max(0, r.original_amount - SumOk(1..MaxCalls))

\* the store calls of add_payment in the order of the code
PayOrder == <<"insert", "rpc", "select", "update">>

\* the call c makes, in this step, the store call op, and it returns no error
Makes(c, op) ==
    /\ Len(inflight'[c].log) = Len(inflight[c].log) + 1
    /\ inflight'[c].log[Len(inflight'[c].log)] = StoreCall(op, FALSE)

\* C25: within one add_payment the store calls are made in the order insert,
\* rpc, select, update; a call is followed by the next only if the insert
\* returned no error, the rpc returned an error and the select returned no
\* error, so no balance write is attempted after a failed insert and the
\* fallback runs only after a failed rpc; the balance the fallback uses is
\* the current_balance in the store at its select, and its update writes
\* max(0, that value - amount); no other step of a call changes a balance.
C25_StepsInOrder ==
    [][ /\ \A c \in 1..MaxCalls :
              /\ Len(inflight'[c].log) <= Len(PayOrder)
              /\ \A i \in DOMAIN inflight'[c].log :
                    /\ inflight'[c].log[i].op = PayOrder[i]
                    /\ i < Len(inflight'[c].log)
                          => (inflight'[c].log[i].err <=> PayOrder[i] = "rpc")
              /\ Makes(c, "select") => inflight'[c].curr = LoanRow(1).current_balance
              /\ Makes(c, "update")
                    => LoanRow(1)'.current_balance
                         = Max(0, inflight[c].curr - inflight[c].amount)
        /\ (\E r \in loans : r \notin loans')
              => \E c \in 1..MaxCalls : Makes(c, "rpc") \/ Makes(c, "update") ]_vars

\* a call has ended with success through the fallback, having read at its
\* select a balance that another call had lowered, and written from it
C25_Witness ==
    \E c \in 1..MaxCalls : \E r \in loans :
        /\ r.id = 1
        /\ ViaFallback(c)
        /\ inflight[c].curr < r.original_amount
        /\ r.current_balance = Max(0, inflight[c].curr - inflight[c].amount)

-----------------------------------------------------------------------------
(* The parse endpoint's checks of the model's output *)

\* the language model's text was extracted as a JSON object
ObjectExtracted ==
    /\ ParseDone
    /\ preq.upstream.kind = "json"
    /\ extractJSON(preq.upstream.payload).t = "object"

\* an object whose action is absent or falsy, whose message is no string,
\* whose need_followup is no boolean, or whose followup_question, with
\* need_followup true, is neither a string nor null nor absent
Malformed(o) ==
    \/ o.action.t \in {"undefined", "null"}
    \/ o.action = Str(<<>>)
    \/ o.message.t # "string"
    \/ o.need_followup.t # "boolean"
    \/ o.need_followup = Bool(TRUE)
          /\ o.followup_question.t \notin {"string", "null", "undefined"}

\* C26: every extracted JSON object that is malformed in one of these ways is
\* answered with status 502 and the message "Structured output missing
\* required fields.", whatever its parameters are: never with 400 or 200.
C26_MalformedObjectIs502 ==
    (ObjectExtracted /\ Malformed(ModelOutput))
        => /\ presp.status = 502
           /\ presp.body["message"] = Msg("Structured output missing required fields.")

\* a create_loan object without parameters, deferred, whose followup_question
\* is a number, answered with 502
C26_Witness ==
    /\ ObjectExtracted
    /\ ModelOutput.action = Str(CreateLoan)
    /\ ModelOutput.parameters = Params(NoFields)
    /\ ModelOutput.message.t = "string"
    /\ ModelOutput.need_followup = Bool(TRUE)
    /\ ModelOutput.followup_question.t = "number"
    /\ presp.status = 502

\* the positions of the texts of the upstream payload that parse as JSON
Parsing == {i \in DOMAIN Candidates(preq.upstream.payload) :
                Candidates(preq.upstream.payload)[i].kind = "json"}

\* the value the first text that parses parses to
FirstParsed == Candidates(preq.upstream.payload)[MinOf(Parsing)].json

\* C27 as stated: extractJSON returns what the first text that parses, in the
\* order output_text, output[].content[].text, choices[0].message.content,
\* parses to, and it returns null exactly when no text parses.
C27_NullExactlyWhenNoneParses ==
    (ParseDone /\ preq.upstream.kind = "json")
        => /\ Parsing # {} => extractJSON(preq.upstream.payload) = FirstParsed
           /\ extractJSON(preq.upstream.payload).t = "null" <=> Parsing = {}

\* C27: extractJSON returns what the first text that parses, in the order
\* output_text, output[].content[].text, choices[0].message.content, parses
\* to, passing over texts that are absent, blank or unparseable; it returns
\* null when no text parses, and also when the first text that parses is
\* the JSON text null, whatever the later texts are.
C27_FirstParseWins ==
    (ParseDone /\ preq.upstream.kind = "json")
        => /\ Parsing # {} => extractJSON(preq.upstream.payload) = FirstParsed
           /\ Parsing = {} => extractJSON(preq.upstream.payload) = JsonNull
           /\ extractJSON(preq.upstream.payload).t = "null"
                <=> (Parsing = {} \/ FirstParsed.t = "null")

\* a payload whose output_text does not parse, whose first output text is
\* blank, whose next parses to an array and whose later texts parse to other
\* values: the array is returned
C27_Witness ==
    /\ ParseDone
    /\ preq.upstream.kind = "json"
    /\ preq.upstream.payload.output_text.kind = "garbage"
    /\ Cardinality(Parsing) >= 3
    /\ MinOf(Parsing) = 3
    /\ extractJSON(preq.upstream.payload).t = "array"
    /\ preq.upstream.payload.legacy.json.t = "number"

-----------------------------------------------------------------------------
(* The balances in the store *)

\* C28: every loan in the store has 0 <= current_balance <= original_amount,
\* whatever create_loan, add_payment and delete_loan requests the action
\* endpoint has accepted, create_loan requests of any numeric original_amount
\* among them.
C28_BalanceWithinOriginal ==
    \A r \in loans : 0 <= r.current_balance /\ r.current_balance <= r.original_amount

-----------------------------------------------------------------------------
(* The busy flag of the chat *)

-----------------------------------------------------------------------------
(* The date of a payment *)

\* C30: an add_payment whose payment_date is supplied and is no YYYY-MM-DD
\* string is not rejected for it: the payment row it inserts carries the
\* server's current date, and its response, when it reports success, reports
\* that date; a payment_date that is a YYYY-MM-DD date is stored and reported
\* as it was sent.
C30_MalformedDateReplacedByToday ==
    [][ /\ (lastReq'.action = Str(AddPaymentAct) /\ lastReq'.payment_date \in MalformedDates)
            => lastResp'.status # 400
        /\ (lastReq'.action = Str(AddPaymentAct) /\ nextPid' = nextPid + 1)
            => /\ lastReq'.payment_date \in MalformedDates
                    => Inserted(payments', nextPid).payment_date = UtcDateISO(now)
               /\ lastReq'.payment_date = Str(Date1)
                    => Inserted(payments', nextPid).payment_date = Date1
               /\ lastResp'.success
                    => lastResp'.data.payment_date = Inserted(payments', nextPid).payment_date
      ]_vars

\* a payment sent with payment_date "yesterday" after the clock has passed
\* midnight is answered with success and the date 2025-09-01
C30_Witness ==
    /\ lastReq.action = Str(AddPaymentAct)
    /\ lastReq.payment_date = Str(Junk)
    /\ lastResp.success
    /\ lastResp.data.payment_date = <<"2", "0", "2", "5", "-", "0", "9", "-", "0", "1">>
    /\ \E p \in payments :
          p.id = nextPid - 1 /\ p.payment_date = lastResp.data.payment_date


====
